---------------------------- MODULE Spec2Model ----------------------------
(***************************************************************************)
(* Control Center of Bifrost Trader: the HealthMonitor polling loop, its   *)
(* health/history/metrics collections, its subscriber fan-out, and the     *)
(* ServiceRegistry catalogue it polls.                                     *)
(*                                                                         *)
(* Conventions.                                                            *)
(*  - An Optional[...] field is a sequence: << >> is None, <<v>> is v.     *)
(*  - A timestamp is kept as its age in hours (now - timestamp); the       *)
(*    passing of time ages every stored timestamp.  Ages saturate at       *)
(*    MaxAge, which lies beyond the retention window.                      *)
(*  - The asyncio event loop runs one task at a time: every action is the  *)
(*    code between two suspension points (await) of one task.              *)
(*  - last_check, memory_usage and cpu_usage of a record are values of the *)
(*    clock and of psutil that no decision of the code reads; they are     *)
(*    left out of the records.                                             *)
(***************************************************************************)
EXTENDS Integers, Sequences, FiniteSets, TLC

\* ------------------------------------------------------------------ bounds

\* task handles that start_monitoring may create in one behaviour
MaxTasks == 2
\* entries the health history and the metrics list may hold in the main
\* specification (a check that would exceed it waits for time to pass)
MaxHist == 1
MaxMetrics == 1
\* entries the health history may hold where poll cycles and reloads are
\* explored
MaxPollHist == 2
\* entries the health history may hold where _check_service_health is
\* called directly
MaxChecks == 3
\* child processes the ServiceManager may spawn in one behaviour
MaxProcs == 3
\* log entries a service may collect in one behaviour
MaxLogs == 3
\* restart_service calls that may be inside their pause at once
MaxPauses == 2
\* polling loops that start-monitoring requests may launch in one behaviour
MaxRequestLoops == 2

\* --------------------------------------------------------- program constants

\* health_monitor.py:144  if len(self.metrics_history) > 1000
MetricsCap == 1000
\* _log_service_action keeps the last 1000 log entries of a service
LogCap == 1000
\* health_monitor.py:158  timedelta(hours=24)
RetentionHours == 24

\* ages are counted up to two hours beyond the retention window: one age
\* beyond the window is told from the older ones, which all fall on the same
\* side of every comparison made (no query asks for more than MaxAge hours)
MaxAge == RetentionHours + 2

None == << >>
Some(v) == << v >>

RUNNING == "running"
STOPPED == "stopped"
ERROR == "error"

\* ------------------------------------------------------------------ registry

\* names of the built-in catalogue (_load_default_services)
DefaultNames == {"api-gateway", "data-service", "web-portal"}

\* a configuration source: unreadable (missing file, not YAML, no mapping),
\* or a list of service entries of which entry badAt (0: none) is malformed
CfgMissing == [readable |-> FALSE, entries |-> << >>, badAt |-> 0]
CfgOf(es) == [readable |-> TRUE, entries |-> es, badAt |-> 0]
CfgBad(es, k) == [readable |-> TRUE, entries |-> es, badAt |-> k]

\* ServiceRegistry._load_config: entries are stored one by one into
\* self.services; an exception (open, parse, or a malformed entry) stops the
\* loop and _load_default_services adds the built-in entries to what is there
LoadConfig(svcs, cfg) ==
    IF ~cfg.readable
    THEN svcs \cup DefaultNames
    ELSE IF cfg.badAt > 0
         THEN svcs \cup {cfg.entries[i] : i \in 1..(cfg.badAt - 1)} \cup DefaultNames
         ELSE svcs \cup {cfg.entries[i] : i \in 1..Len(cfg.entries)}


\* ------------------------------------------------------- health check input

\* what client.get(health_endpoint) can produce: a response with a status
\* code and a body, httpx.TimeoutException, or any other exception
Http(code, body, lat) ==
    [kind |-> "http", code |-> code, body |-> body, latency |-> lat, msg |-> ""]
TimedOut ==
    [kind |-> "timeout", code |-> 0, body |-> "", latency |-> 0, msg |-> ""]
Failed(m) ==
    [kind |-> "exception", code |-> 0, body |-> "", latency |-> 0, msg |-> m]

\* bodies of a response: a JSON object without / with a numeric uptime, a
\* JSON object whose uptime is not a number, JSON that is no object, no JSON
Bodies == {"object", "object_uptime", "object_bad_uptime", "not_object", "not_json"}
JsonDecodeMsg == "Expecting value: line 1 column 1 (char 0)"
NoGetMsg == "'list' object has no attribute 'get'"

\* ------------------------------------------------------------ health check

\* a check that records a timeout as STOPPED
Classify_timeout_stopped(resp) ==
    [status |-> IF resp.kind = "http" /\ resp.code = 200 THEN RUNNING
                ELSE IF resp.kind = "timeout" THEN STOPPED ELSE ERROR,
     response_time |-> IF resp.kind = "http" /\ resp.code = 200
                       THEN Some(resp.latency) ELSE None,
     error_message |-> IF resp.kind = "http" /\ resp.code = 200
                       THEN None ELSE Some("Request failed"),
     uptime |-> None]

\* lines 82-108: the try block around client.get; response.json() and
\* health_data.get('uptime') run inside it, so their exceptions reach the
\* "except Exception" branch
Classify(resp) ==
    IF resp.kind = "http"
    THEN IF resp.code = 200
         THEN IF resp.body = "not_json"
              THEN [status |-> ERROR, response_time |-> None,
                    error_message |-> Some(JsonDecodeMsg), uptime |-> None]
              ELSE IF resp.body = "not_object"
              THEN [status |-> ERROR, response_time |-> None,
                    error_message |-> Some(NoGetMsg), uptime |-> None]
              ELSE [status |-> RUNNING, response_time |-> Some(resp.latency),
                    error_message |-> None,
                    uptime |-> IF resp.body = "object_uptime"
                               THEN Some(3600) ELSE None]
         ELSE [status |-> ERROR, response_time |-> None,
               error_message |-> Some("HTTP " \o ToString(resp.code)),
               uptime |-> None]
    ELSE IF resp.kind = "timeout"
    THEN [status |-> ERROR, response_time |-> None,
          error_message |-> Some("Request timeout"), uptime |-> None]
    ELSE [status |-> ERROR, response_time |-> None,
          error_message |-> Some(resp.msg), uptime |-> None]

\* lines 120-128: ServiceHealth(...) validates uptime: Optional[float]; an
\* uptime that is no number raises ValidationError out of the coroutine
\* (asyncio.gather(return_exceptions=True) then drops it)
Raises(resp) ==
    resp.kind = "http" /\ resp.code = 200 /\ resp.body = "object_bad_uptime"

\* a trim that keeps the first 1000 samples instead of the last
TrimMetrics_keep_oldest(mh) ==
    IF Len(mh) > MetricsCap THEN SubSeq(mh, 1, MetricsCap) ELSE mh

\* lines 144-145: keep only the last 1000 metrics
TrimMetrics(mh) ==
    IF Len(mh) > MetricsCap
    THEN SubSeq(mh, Len(mh) - MetricsCap + 1, Len(mh))
    ELSE mh

\* lines 158-162: keep the entries with timestamp > now - 24 hours
RECURSIVE PruneHistory(_)
PruneHistory(hh) ==
    IF hh = << >> THEN << >>
    ELSE IF Head(hh).age < RetentionHours
         THEN << Head(hh) >> \o PruneHistory(Tail(hh))
         ELSE PruneHistory(Tail(hh))

\* line 130: self.health_data[service_name] = health
HealthAfter(hd, name, resp) ==
    IF Raises(resp) THEN hd
    ELSE [n \in DOMAIN hd \cup {name} |->
            IF n = name THEN Classify(resp) ELSE hd[n]]

\* lines 133-145
MetricsAfter(mh, name, resp) ==
    IF Raises(resp) \/ Classify(resp).response_time = None THEN mh
    ELSE TrimMetrics(Append(mh, [service_name |-> name, age |-> 0,
                                 response_time |-> Classify(resp).response_time[1]]))

\* lines 148-162
HistoryAfter(hh, name, resp) ==
    IF Raises(resp) THEN hh
    ELSE PruneHistory(Append(hh, [service_name |-> name, age |-> 0,
                                  status |-> Classify(resp).status,
                                  response_time |-> Classify(resp).response_time,
                                  error_message |-> Classify(resp).error_message]))

\* ------------------------------------------------------------------- state

VARIABLES
    config,             \* the configuration source as it is now on disk
    services,           \* ServiceRegistry.services (its names)
    health_data,        \* HealthMonitor.health_data: name -> record
    metrics_history,    \* HealthMonitor.metrics_history
    health_history,     \* HealthMonitor.health_history
    websocket_clients,  \* HealthMonitor.websocket_clients
    monitoring,         \* HealthMonitor.monitoring
    monitor_task,       \* HealthMonitor.monitor_task: a task id, 0 for None
    task,               \* the _monitor_loop tasks created so far
    stopWaiters,        \* tasks that a stop_monitoring call is awaiting
    lastCall,           \* the last start_/stop_monitoring call made so far
    lastCheck,          \* the last direct call of _check_service_health:
                        \* its service name and the answer it got
    running_processes,  \* ServiceManager.running_processes: name -> handle
    procs,              \* the child processes spawned so far, by handle
    service_logs,       \* ServiceManager.service_logs: name -> log levels
    pausing,            \* restart_service calls inside asyncio.sleep(2)
    lastResult,         \* the last result a ServiceManager call returned
    osCalls,            \* the Popen calls that the last stop_service made
    lastReply,          \* the last reply of a request of the HTTP surface
    requestLoops,       \* polling loops launched by monitors that requests built
    snapshot,           \* a value returned by get_all_health, held by a caller
    aliased             \* the names whose record object in snapshot is the
                        \* object health_data holds

registryVars == << config, services >>
dataVars == << health_data, metrics_history, health_history >>
loopVars == << monitoring, monitor_task, task, stopWaiters >>
callVars == << lastCall, lastCheck >>
managerVars == << running_processes, procs, service_logs, pausing, lastResult,
                 osCalls >>
\* what no step of the HealthMonitor or the registry touches
outerVars == << managerVars, lastReply, requestLoops, snapshot >>
vars == << config, services, health_data, metrics_history, health_history,
           websocket_clients, monitoring, monitor_task, task, stopWaiters,
           lastCall, lastCheck, running_processes, procs, service_logs,
           pausing, lastResult, osCalls, lastReply, requestLoops, snapshot,
           aliased >>

TaskIds == 1..MaxTasks
Clients == {"w1", "w2"}

\* a task that was not created yet.  kids: the _check_service_health tasks of
\* the running cycle; msg, bcast, iterLen, sentTo, disconnected, cur: the
\* locals of the running (or last) _broadcast_updates: the serialized
\* message, the subscribers when the iteration began, the size the set
\* iterator recorded, the subscribers whose send returned, the local set
\* "disconnected", the subscriber being sent to
NoTask ==
    [pc |-> "none", cancel |-> FALSE, kids |-> << >>, msg |-> << >>,
     bcast |-> {}, iterLen |-> 0, sentTo |-> {}, disconnected |-> {},
     cur |-> ""]

Alive(t) == task[t].pc \notin {"none", "done"}


\* ---------------------------------------------------------------- registry

\* the configuration source is edited
ConfigChange(c) ==
    /\ config' = c
    /\ UNCHANGED << services, dataVars, websocket_clients, loopVars, callVars >>
    /\ UNCHANGED << outerVars, aliased >>

\* ServiceRegistry.reload_config: clear, then _load_config
reload_config ==
    /\ services' = LoadConfig({}, config)
    /\ UNCHANGED << config, dataVars, websocket_clients, loopVars, callVars >>
    /\ UNCHANGED << outerVars, aliased >>

\* ------------------------------------------------------------------- time

Older(age, d) == IF age + d > MaxAge THEN MaxAge ELSE age + d

\* d hours pass: every stored timestamp is d hours older
Tick(d) ==
    /\ metrics_history' =
         [i \in 1..Len(metrics_history) |->
            [metrics_history[i] EXCEPT !.age = Older(@, d)]]
    /\ health_history' =
         [i \in 1..Len(health_history) |->
            [health_history[i] EXCEPT !.age = Older(@, d)]]
    /\ UNCHANGED << registryVars, health_data, websocket_clients, loopVars,
                    callVars >>
    /\ UNCHANGED << outerVars, aliased >>

\* ------------------------------------------------------------- subscribers

add_websocket_client(c) ==
    /\ websocket_clients' = websocket_clients \cup {c}
    /\ UNCHANGED << registryVars, dataVars, loopVars, callVars >>
    /\ UNCHANGED << outerVars, aliased >>

remove_websocket_client(c) ==
    /\ websocket_clients' = websocket_clients \ {c}
    /\ UNCHANGED << registryVars, dataVars, loopVars, callVars >>
    /\ UNCHANGED << outerVars, aliased >>

\* ------------------------------------------------------------ start / stop

FreeIds == {t \in TaskIds : task[t].pc = "none"}
NewId == CHOOSE t \in FreeIds : \A u \in FreeIds : t <= u

\* start_monitoring without the "if not self.monitoring" test
start_monitoring_unguarded ==
    /\ lastCall' = IF lastCall \in {"start", "start_again"}
                   THEN "start_again" ELSE "start"
    /\ FreeIds # {}
    /\ monitoring' = TRUE
    /\ task' = [task EXCEPT ![NewId] = [NoTask EXCEPT !.pc = "ready"]]
    /\ monitor_task' = NewId
    /\ UNCHANGED << registryVars, dataVars, websocket_clients, stopWaiters,
                    lastCheck >>
    /\ UNCHANGED << outerVars, aliased >>

\* start_monitoring: no await inside, one step
start_monitoring ==
    /\ lastCall' = IF lastCall \in {"start", "start_again"}
                   THEN "start_again" ELSE "start"
    /\ IF ~monitoring
       THEN /\ FreeIds # {}
            /\ monitoring' = TRUE
            /\ task' = [task EXCEPT ![NewId] = [NoTask EXCEPT !.pc = "ready"]]
            /\ monitor_task' = NewId
       ELSE UNCHANGED << monitoring, task, monitor_task >>
    /\ UNCHANGED << registryVars, dataVars, websocket_clients, stopWaiters,
                    lastCheck >>
    /\ UNCHANGED << outerVars, aliased >>

\* stop_monitoring up to its await: the flag is cleared, the task is asked to
\* cancel, and the caller waits for it; awaiting a finished task (or no task)
\* returns at once
stop_monitoring ==
    /\ lastCall' = "stop"
    /\ monitoring' = FALSE
    /\ IF monitor_task # 0 /\ task[monitor_task].pc # "done"
       THEN /\ task' = [task EXCEPT ![monitor_task].cancel = TRUE]
            /\ stopWaiters' = stopWaiters \cup {monitor_task}
       ELSE UNCHANGED << task, stopWaiters >>
    /\ UNCHANGED << registryVars, dataVars, websocket_clients, monitor_task,
                    lastCheck >>
    /\ UNCHANGED << outerVars, aliased >>

\* stop_monitoring after its await: the awaited task is done (CancelledError
\* swallowed), the call returns
stop_return(t) ==
    /\ t \in stopWaiters
    /\ task[t].pc = "done"
    /\ stopWaiters' = stopWaiters \ {t}
    /\ UNCHANGED << registryVars, dataVars, websocket_clients, monitoring,
                    monitor_task, task, callVars >>
    /\ UNCHANGED << outerVars, aliased >>


\* ------------------------------------------------------------ polling loop

\* _broadcast_updates from its first line to its first await (lines 166-192)
BroadcastStart(t) ==
    IF websocket_clients = {}
    THEN task' = [task EXCEPT ![t] = [NoTask EXCEPT !.pc = "sleep30"]]
    ELSE \E c \in websocket_clients :
            task' = [task EXCEPT ![t] =
                       [NoTask EXCEPT !.pc = "send",
                                      !.msg = health_data,
                                      !.bcast = websocket_clients,
                                      !.iterLen = Cardinality(websocket_clients),
                                      !.cur = c]]

\* the iteration with no "except Exception" around the cycle: the
\* RuntimeError of the set iterator ends the task
IterNext_uncaught(t, r) ==
    IF Cardinality(websocket_clients) # r.iterLen
    THEN /\ task' = [task EXCEPT ![t] = [NoTask EXCEPT !.pc = "done"]]
         /\ UNCHANGED websocket_clients
    ELSE LET remaining == websocket_clients \ (r.sentTo \cup r.disconnected)
         IN  \/ \E c \in remaining :
                  /\ task' = [task EXCEPT ![t] = [r EXCEPT !.cur = c]]
                  /\ UNCHANGED websocket_clients
             \/ /\ remaining \cap r.bcast = {}
                /\ task' = [task EXCEPT ![t] = [NoTask EXCEPT !.pc = "sleep30"]]
                /\ websocket_clients' = websocket_clients \ r.disconnected

\* the for loop of lines 190-197 asks the set iterator for the next
\* subscriber: RuntimeError (caught by _monitor_loop, which sleeps 5) if the
\* set changed size since the iteration began; else the next subscriber not
\* yet visited; else the failed ones are removed and the loop sleeps 30.
\* A subscriber added while the iteration runs may be passed over.
IterNext(t, r) ==
    IF Cardinality(websocket_clients) # r.iterLen
    THEN /\ task' = [task EXCEPT ![t] = [NoTask EXCEPT !.pc = "sleep5"]]
         /\ UNCHANGED websocket_clients
    ELSE LET remaining == websocket_clients \ (r.sentTo \cup r.disconnected)
         IN  \/ \E c \in remaining :
                  /\ task' = [task EXCEPT ![t] = [r EXCEPT !.cur = c]]
                  /\ UNCHANGED websocket_clients
             \/ /\ remaining \cap r.bcast = {}
                /\ task' = [task EXCEPT ![t] = [NoTask EXCEPT !.pc = "sleep30"]]
                /\ websocket_clients' = websocket_clients \ r.disconnected

\* _monitor_loop resumes (first run, or a sleep is over): the while test,
\* then _check_all_services up to asyncio.gather, or, with no service
\* registered, straight on to _broadcast_updates
CycleBegin(t) ==
    /\ task[t].pc \in {"ready", "sleep30", "sleep5"}
    /\ ~task[t].cancel
    /\ IF ~monitoring
       THEN task' = [task EXCEPT ![t] = [NoTask EXCEPT !.pc = "done"]]
       ELSE IF services # {}
       THEN task' = [task EXCEPT ![t] =
                       [NoTask EXCEPT !.pc = "gather",
                                      !.kids = [n \in services |-> "new"]]]
       ELSE BroadcastStart(t)
    /\ UNCHANGED << registryVars, dataVars, websocket_clients, monitoring,
                    monitor_task, stopWaiters, callVars >>
    /\ UNCHANGED << outerVars, aliased >>

\* _check_service_health, first step (lines 72-84): look the service up and
\* send the request
ChildStart(t, n) ==
    /\ task[t].pc = "gather"
    /\ ~task[t].cancel
    /\ n \in DOMAIN task[t].kids
    /\ task[t].kids[n] = "new"
    /\ task' = [task EXCEPT ![t].kids[n] =
                  IF n \in services THEN "wait" ELSE "done"]
    /\ UNCHANGED << registryVars, dataVars, websocket_clients, monitoring,
                    monitor_task, stopWaiters, callVars >>
    /\ UNCHANGED << outerVars, aliased >>

\* _check_service_health, from the answer of client.get to the end
\* (lines 85-162); the record written is a new ServiceHealth object
_check_service_health(name, resp) ==
    /\ health_data' = HealthAfter(health_data, name, resp)
    /\ metrics_history' = MetricsAfter(metrics_history, name, resp)
    /\ health_history' = HistoryAfter(health_history, name, resp)
    /\ aliased' = IF Raises(resp) THEN aliased ELSE aliased \ {name}

ChildFinish(t, n, resp) ==
    /\ task[t].pc = "gather"
    /\ ~task[t].cancel
    /\ n \in DOMAIN task[t].kids
    /\ task[t].kids[n] = "wait"
    /\ _check_service_health(n, resp)
    /\ task' = [task EXCEPT ![t].kids[n] = "done"]
    /\ UNCHANGED << registryVars, websocket_clients, monitoring, monitor_task,
                    stopWaiters, callVars >>
    /\ UNCHANGED outerVars

\* asyncio.gather returns: every check of the cycle is done; on to
\* _broadcast_updates
GatherDone(t) ==
    /\ task[t].pc = "gather"
    /\ ~task[t].cancel
    /\ \A n \in DOMAIN task[t].kids : task[t].kids[n] = "done"
    /\ BroadcastStart(t)
    /\ UNCHANGED << registryVars, dataVars, websocket_clients, monitoring,
                    monitor_task, stopWaiters, callVars >>
    /\ UNCHANGED << outerVars, aliased >>

\* await client.send(message) is over: it returned (ok) or raised
SendDone(t, ok) ==
    /\ task[t].pc = "send"
    /\ ~task[t].cancel
    /\ IterNext(t, IF ok
                   THEN [task[t] EXCEPT !.sentTo = @ \cup {task[t].cur}]
                   ELSE [task[t] EXCEPT !.disconnected = @ \cup {task[t].cur}])
    /\ UNCHANGED << registryVars, dataVars, monitoring, monitor_task,
                    stopWaiters, callVars >>
    /\ UNCHANGED << outerVars, aliased >>

\* the task is resumed with CancelledError at its suspension point.  In the
\* sleeps, in gather (whose children are cancelled with it) and before its
\* first run nothing catches it (it is no Exception) and the task ends.
\* Inside client.send the bare "except:" of line 193 catches it: the
\* subscriber is put into "disconnected" and the loop goes on.
CancelDeliver(t) ==
    /\ task[t].cancel
    /\ IF task[t].pc = "send"
       THEN IterNext(t, [task[t] EXCEPT !.cancel = FALSE,
                                        !.disconnected = @ \cup {task[t].cur}])
       ELSE /\ task[t].pc \in {"ready", "gather", "sleep30", "sleep5"}
            /\ task' = [task EXCEPT ![t] = [NoTask EXCEPT !.pc = "done"]]
            /\ UNCHANGED websocket_clients
    /\ UNCHANGED << registryVars, dataVars, monitoring, monitor_task,
                    stopWaiters, callVars >>
    /\ UNCHANGED << outerVars, aliased >>


\* ------------------------------------------------------------------ queries

\* get_all_health: self.health_data.copy()
get_all_health == health_data

\* sorted(history, key=timestamp): stable, oldest timestamp first
RECURSIVE SortByTimestamp(_)
SortByTimestamp(hs) ==
    IF hs = << >> THEN << >>
    ELSE LET front == SortByTimestamp(SubSeq(hs, 1, Len(hs) - 1))
             x == hs[Len(hs)]
             before == SelectSeq(front, LAMBDA h : h.age >= x.age)
             after == SelectSeq(front, LAMBDA h : h.age < x.age)
         IN  before \o << x >> \o after

\* get_health_history(service_name, hours); name "" stands for None
get_health_history(name, hours) ==
    LET recent == SelectSeq(health_history, LAMBDA h : h.age < hours)
        mine == IF name # ""
                THEN SelectSeq(recent, LAMBDA h : h.service_name = name)
                ELSE recent
    IN  SortByTimestamp(mine)

\* ------------------------------------------------------------- direct call

\* await monitor._check_service_health(name) called on its own, answered resp
CheckOnce(n, resp) ==
    /\ n \in services
    /\ _check_service_health(n, resp)
    /\ lastCheck' = [name |-> n, resp |-> resp]
    /\ UNCHANGED << registryVars, websocket_clients, loopVars, lastCall >>
    /\ UNCHANGED outerVars

\* ----------------------------------------------------------- specification

NoCheck == [name |-> "", resp |-> TimedOut]
NoResult == [op |-> "none", name |-> "", success |-> FALSE, message |-> ""]
NoReply == [request |-> "none", name |-> "", reply |-> ""]

\* ServiceManager.__init__, and nothing requested or handed out yet
OuterFresh ==
    /\ running_processes = << >>
    /\ procs = << >>
    /\ service_logs = << >>
    /\ pausing = << >>
    /\ lastResult = NoResult
    /\ osCalls = << >>
    /\ lastReply = NoReply
    /\ requestLoops = 0
    /\ snapshot = << >>
    /\ aliased = {}

\* the monitor and the registry as constructed (HealthMonitor.__init__,
\* ServiceRegistry.__init__) over the configuration cfg
Fresh(cfg) ==
    /\ config = cfg
    /\ services = LoadConfig({}, cfg)
    /\ health_data = << >>
    /\ metrics_history = << >>
    /\ health_history = << >>
    /\ websocket_clients = {}
    /\ monitoring = FALSE
    /\ monitor_task = 0
    /\ task = [t \in TaskIds |-> NoTask]
    /\ stopWaiters = {}
    /\ lastCall = "none"
    /\ lastCheck = NoCheck
    /\ OuterFresh

\* the environment of the main specification: one registered service
SpecResponses ==
    {Http(200, "object", 1), Http(200, "object_bad_uptime", 1), Http(500, "not_json", 1)}
SpecTicks == {MaxAge}

\* the check has room in the bounded lists
Room(n, resp) ==
    /\ Len(HistoryAfter(health_history, n, resp)) <= MaxHist
    /\ Len(MetricsAfter(metrics_history, n, resp)) <= MaxMetrics

Init == Fresh(CfgOf(<< "api-gateway" >>))

LoopStep(t) ==
    \/ CycleBegin(t)
    \/ \E n \in DOMAIN task[t].kids : ChildStart(t, n)
    \/ \E n \in DOMAIN task[t].kids : \E resp \in SpecResponses :
          Room(n, resp) /\ ChildFinish(t, n, resp)
    \/ GatherDone(t)
    \/ \E ok \in BOOLEAN : SendDone(t, ok)
    \/ CancelDeliver(t)

\* the steps of the monitor with the subscribers of cs coming and going
NextOver(cs) ==
    \/ \E d \in SpecTicks : Tick(d)
    \/ \E c \in cs : add_websocket_client(c)
    \/ \E c \in cs : remove_websocket_client(c)
    \/ start_monitoring
    \/ stop_monitoring
    \/ \E t \in TaskIds : stop_return(t)
    \/ \E t \in TaskIds : LoopStep(t)

Next == NextOver(Clients)

Spec == Init /\ [][Next]_vars


\* the event loop runs every task that can run, timers fire, every request
\* is answered or times out, every send returns or raises, and a caller
\* awaiting a finished task is resumed
Fairness ==
    \A t \in TaskIds : WF_vars(LoopStep(t)) /\ WF_vars(stop_return(t))

\* the fair behaviours, with one subscriber
FairNext == NextOver({"w1"})

FairSpec == Init /\ [][FairNext]_vars /\ Fairness

\* ------------------------------------------------------------------ claims

\* a polling loop that is running: created, not finished, and with no
\* cancellation on its way
Running(t) == Alive(t) /\ ~task[t].cancel

\* C1: at no time are two polling loops of the monitor running.
C1_OneLoop == Cardinality({t \in TaskIds : Running(t)}) <= 1

C3_StopReturns ==
    /\ \A t \in TaskIds : (t \in stopWaiters) ~> (t \notin stopWaiters)
    /\ [][\A t \in TaskIds :
            /\ (t \in stopWaiters /\ t \notin stopWaiters') => task[t].pc = "done"
            /\ task[t].pc = "done" => task'[t].pc = "done"]_vars

\* the loop t has been stopped: ended, asked to cancel, or the flag cleared
Stopped(t) == ~Alive(t) \/ task[t].cancel \/ ~monitoring

\* C4: a loop ends only when it was cancelled or saw the monitoring flag
\* cleared; until then every sleep (the 30 s one and the 5 s back-off after
\* an escaped exception) is followed by a new poll cycle, and every poll
\* cycle comes to its end.
C4_SelfHealing ==
    /\ [][\A t \in TaskIds :
            Alive(t) /\ task'[t].pc = "done" => task[t].cancel \/ ~monitoring]_vars
    /\ \A t \in TaskIds :
         /\ (task[t].pc \in {"ready", "sleep30", "sleep5"})
               ~> (Stopped(t) \/ task[t].pc \in {"gather", "send"})
         /\ (task[t].pc \in {"gather", "send"})
               ~> (Stopped(t) \/ task[t].pc \in {"sleep30", "sleep5"})

C4_Witness ==
    \E t \in TaskIds : task[t].pc = "sleep5" /\ monitoring /\ ~task[t].cancel

\* the step in which the broadcast of loop t comes to its end
BroadcastEnds(t) ==
    task[t].pc = "send" /\ task'[t].pc \in {"sleep30", "sleep5", "done"}

\* C8: when a broadcast ends, every subscriber that was connected when it
\* began and still is has been sent the message, the subscribers whose send
\* failed are no longer subscribed, and all others still are.
C8_Broadcast ==
    [][\A t \in TaskIds : BroadcastEnds(t) =>
          /\ (task[t].bcast \cap websocket_clients)
                \subseteq (task[t].sentTo \cup task[t].disconnected \cup {task[t].cur})
          /\ task[t].disconnected \cap websocket_clients' = {}
          /\ websocket_clients \ (task[t].disconnected \cup {task[t].cur})
                \subseteq websocket_clients']_vars


\* ------------------------------------------- poll cycles and registry reloads

PollConfigs == {CfgOf(<< "api-gateway" >>), CfgOf(<< "data-service" >>)}
PollResponses == {Http(200, "object", 1), Http(500, "object", 1)}
PollTicks == {12}

PollRoom(n, resp) ==
    /\ Len(HistoryAfter(health_history, n, resp)) <= MaxPollHist
    /\ Len(MetricsAfter(metrics_history, n, resp)) <= MaxMetrics

PollInit == Fresh(CfgOf(<< "api-gateway" >>))

PollStep(t) ==
    \/ CycleBegin(t)
    \/ \E n \in DOMAIN task[t].kids : ChildStart(t, n)
    \/ \E n \in DOMAIN task[t].kids : \E resp \in PollResponses :
          PollRoom(n, resp) /\ ChildFinish(t, n, resp)
    \/ GatherDone(t)

\* a poll cycle takes seconds: the hours pass between cycles
BetweenCycles == \A t \in TaskIds : task[t].pc \notin {"gather", "send"}

PollNext ==
    \/ \E c \in PollConfigs : ConfigChange(c)
    \/ reload_config
    \/ \E d \in PollTicks : BetweenCycles /\ Tick(d)
    \/ start_monitoring
    \/ \E t \in TaskIds : PollStep(t)

PollSpec == PollInit /\ [][PollNext]_vars

\* the step in which asyncio.gather returns: the checks of the cycle are over
CycleCompletes(t) ==
    task[t].pc = "gather" /\ task'[t].pc \in {"send", "sleep30"}

\* C5: whenever a poll cycle completes, the names with a current record are
\* exactly the names the registry knows.
C5_RecordPerService ==
    [][\A t \in TaskIds : CycleCompletes(t) => DOMAIN health_data' = services']_vars


Young(h) == h.age < RetentionHours

\* C10: after every completed poll cycle the health history holds no entry
\* stamped 24 hours ago or earlier, and get_health_history(None, 24) returns
\* exactly the younger entries, in insertion order.
C10_PrunedEachCycle ==
    /\ [][\A t \in TaskIds : CycleCompletes(t) =>
            \A i \in 1..Len(health_history') : Young(health_history'[i])]_vars
    /\ [](get_health_history("", RetentionHours) = SelectSeq(health_history, Young))

\* ------------------------------------------------------- the first poll cycle

FirstResponses ==
    {Http(200, "object", 1), Http(200, "object_uptime", 1),
     Http(200, "not_json", 1), Http(200, "object_bad_uptime", 1),
     Http(500, "object", 1)}

\* no configuration file: the three default services
FirstInit == Fresh(CfgMissing)

FirstStep(t) ==
    \/ task[t].pc = "ready" /\ CycleBegin(t)
    \/ \E n \in DOMAIN task[t].kids : ChildStart(t, n)
    \/ \E n \in DOMAIN task[t].kids : \E resp \in FirstResponses :
          ChildFinish(t, n, resp)
    \/ GatherDone(t)

FirstNext ==
    \/ start_monitoring
    \/ \E t \in TaskIds : FirstStep(t)

FirstCycleSpec == FirstInit /\ [][FirstNext]_vars

\* C6: after start_monitoring() on a fresh monitor and one full poll cycle,
\* get_all_health() holds exactly one record per registered service and
\* nothing else (for the three registered services: exactly three records).
C6_FirstCycle ==
    \A t \in TaskIds : task[t].pc = "sleep30" =>
        /\ DOMAIN get_all_health = services
        /\ Cardinality(DOMAIN get_all_health) = Cardinality(DefaultNames)

\* ------------------------------------------------------ direct health checks

AllResponses ==
    {Http(c, b, 1) : c \in {200, 500}, b \in Bodies}
        \cup {TimedOut, Failed("connection refused")}

CheckInit == Fresh(CfgOf(<< "api-gateway" >>))

CheckNext ==
    \E n \in services : \E resp \in AllResponses :
        /\ Len(health_history) < MaxChecks
        /\ CheckOnce(n, resp)

CheckSpec == CheckInit /\ [][CheckNext]_vars

\* what the claim says the record of a check answered resp holds
Claimed(resp, rec) ==
    /\ resp.kind = "http" /\ resp.code = 200 =>
          /\ rec.status = RUNNING
          /\ rec.response_time = Some(resp.latency)
          /\ rec.error_message = None
    /\ resp.kind = "http" /\ resp.code # 200 =>
          /\ rec.status = ERROR
          /\ rec.error_message = Some("HTTP " \o ToString(resp.code))
    /\ resp.kind = "timeout" =>
          /\ rec.status = ERROR
          /\ rec.error_message = Some("Request timeout")
    /\ resp.kind = "exception" =>
          /\ rec.status = ERROR
          /\ rec.error_message = Some(resp.msg)
    /\ rec.status = ERROR => rec.response_time = None /\ rec.uptime = None

\* C7: the record a health check leaves is RUNNING with the latency and no
\* error message for HTTP 200 whatever the body, ERROR "HTTP {code}" for any
\* other code, ERROR "Request timeout" for a timeout, ERROR with the exception's
\* message otherwise; every ERROR record has latency and uptime null.
C7_Classification ==
    lastCheck # NoCheck =>
        /\ lastCheck.name \in DOMAIN health_data
        /\ Claimed(lastCheck.resp, health_data[lastCheck.name])

\* ------------------------------------------------------------ the metrics cap

MetricsResponses ==
    {Http(200, "object", 1), Http(200, "object", 6), Http(500, "object", 1)}

\* the monitor after k answered checks of api-gateway, the last one just now
\* and the earlier ones more than a day ago
SeedSample(i, k) ==
    [service_name |-> "api-gateway",
     age |-> IF i = k THEN 0 ELSE MaxAge,
     response_time |-> IF i % 2 = 1 THEN 1 ELSE 6]

SeedLatency(k) == IF k % 2 = 1 THEN 1 ELSE 6

AfterChecks(k) ==
    /\ config = CfgOf(<< "api-gateway", "data-service" >>)
    /\ services = {"api-gateway", "data-service"}
    /\ health_data =
          HealthAfter(<< >>, "api-gateway", Http(200, "object", SeedLatency(k)))
    /\ metrics_history = [i \in 1..k |-> SeedSample(i, k)]
    /\ health_history =
          HistoryAfter(<< >>, "api-gateway", Http(200, "object", SeedLatency(k)))
    /\ websocket_clients = {}
    /\ monitoring = FALSE
    /\ monitor_task = 0
    /\ task = [t \in TaskIds |-> NoTask]
    /\ stopWaiters = {}
    /\ lastCall = "none"
    /\ lastCheck = NoCheck
    /\ OuterFresh

MetricsInit == \E k \in (MetricsCap - 3)..MetricsCap : AfterChecks(k)

MetricsNext ==
    \E n \in services : \E resp \in MetricsResponses :
        /\ Len(health_history) < MaxChecks
        /\ CheckOnce(n, resp)

MetricsSpec == MetricsInit /\ [][MetricsNext]_vars

LastSamples(ms) ==
    IF Len(ms) > MetricsCap
    THEN SubSeq(ms, Len(ms) - MetricsCap + 1, Len(ms))
    ELSE ms

\* C9: the metrics list never holds more than 1000 samples over all services,
\* and a check that captured a latency leaves the previous samples followed by
\* its own, less the oldest ones beyond the cap.
C9_MetricsCap ==
    /\ [](Len(metrics_history) <= MetricsCap)
    /\ [][LET r == lastCheck'.resp
          IN  r.kind = "http" /\ r.code = 200 =>
                metrics_history' =
                    LastSamples(Append(metrics_history,
                                       [service_name |-> lastCheck'.name,
                                        age |-> 0,
                                        response_time |-> r.latency]))]_vars

\* the list is full and its oldest seeded sample has been dropped
C9_Witness ==
    /\ lastCheck # NoCheck
    /\ Len(metrics_history) = MetricsCap
    /\ metrics_history[1] = SeedSample(2, MetricsCap)
    /\ metrics_history[MetricsCap].service_name = "data-service"


\* ------------------------------------------------------------ ServiceManager

\* a child process is alive, exited (its Popen object has not noticed:
\* returncode is None), or reaped (poll/wait has set returncode)
Spawned(name) == [name |-> name, st |-> "alive"]

\* Popen.poll(): notices an exit and sets returncode
Poll(ps, pid) ==
    [ps EXCEPT ![pid].st = IF @ = "exited" THEN "reaped" ELSE @]

Tracked(name) == name \in DOMAIN running_processes

LogsOf(logs, name) == IF name \in DOMAIN logs THEN logs[name] ELSE << >>

\* a _log_service_action that appends the entry twice
Log_twice(logs, name, level) ==
    LET all == LogsOf(logs, name) \o << level, level >>
    IN  [n \in DOMAIN logs \cup {name} |-> IF n = name THEN all ELSE logs[n]]

\* a cleanup that drops every handle, those of live processes too
Terminated_all == DOMAIN running_processes

\* _log_service_action (lines 247-264)
Log(logs, name, level) ==
    LET all == Append(LogsOf(logs, name), level)
        kept == IF Len(all) > LogCap
                THEN SubSeq(all, Len(all) - LogCap + 1, Len(all))
                ELSE all
    IN  [n \in DOMAIN logs \cup {name} |-> IF n = name THEN kept ELSE logs[n]]

Without(f, name) == [n \in DOMAIN f \ {name} |-> f[n]]
With(f, name, v) == [n \in DOMAIN f \cup {name} |-> IF n = name THEN v ELSE f[n]]

Result(op, name, ok, msg) ==
    [op |-> op, name |-> name, success |-> ok, message |-> msg]

\* start_service that spawns without asking the tracked handle whether it
\* is alive
StartOutcome_unchecked(name, ok) ==
    IF name \notin services THEN "not found"
    ELSE IF ok THEN "started successfully"
    ELSE "Failed to start service"

\* start_service (lines 29-82): which return statement is reached; ok: the
\* Popen call does not raise
StartOutcome(name, ok) ==
    IF name \notin services THEN "not found"
    ELSE IF Tracked(name) /\ procs[running_processes[name]].st = "alive"
    THEN "is already running"
    ELSE IF ok THEN "started successfully"
    ELSE "Failed to start service"

\* a start_service that records the handle but writes no log entry
StartEffect_no_log(name, ok) ==
    LET out == StartOutcome(name, ok)
        polled == IF name \in services /\ Tracked(name)
                  THEN Poll(procs, running_processes[name]) ELSE procs
    IN  /\ procs' = IF out = "started successfully"
                    THEN Append(polled, Spawned(name)) ELSE polled
        /\ running_processes' =
              IF out = "started successfully"
              THEN With(running_processes, name, Len(procs) + 1)
              ELSE running_processes
        /\ UNCHANGED service_logs

\* start_service: what it does to the manager
StartEffect(name, ok) ==
    LET out == StartOutcome(name, ok)
        polled == IF name \in services /\ Tracked(name)
                  THEN Poll(procs, running_processes[name]) ELSE procs
    IN  /\ procs' = IF out = "started successfully"
                    THEN Append(polled, Spawned(name)) ELSE polled
        /\ running_processes' =
              IF out = "started successfully"
              THEN With(running_processes, name, Len(procs) + 1)
              ELSE running_processes
        /\ service_logs' =
              IF out = "started successfully" THEN Log(service_logs, name, "INFO")
              ELSE IF out = "Failed to start service"
              THEN Log(service_logs, name, "ERROR")
              ELSE service_logs

\* stop_service (lines 86-125): which return statement is reached; osr: what
\* the OS calls do to a live process: "ok" (terminate ends it within the
\* 10 s of the wait), "timeout" (it is still alive when the wait expires;
\* kill ends it) or "raises" (terminate raises)
StopOutcome(name, osr) ==
    IF ~Tracked(name) THEN "is not running"
    ELSE IF osr = "raises" /\ procs[running_processes[name]].st = "alive"
    THEN "Failed to stop service"
    ELSE "stopped successfully"

\* a stop_service that kills at once, without asking the process to end
StopCalls_kill_first(name, osr) ==
    IF ~Tracked(name) THEN << >>
    ELSE << "kill", "wait()" >>

\* stop_service (lines 94-105): the Popen calls made, in their order.  On a
\* process that has ended, terminate does nothing and wait(10) returns at
\* once
StopCalls(name, osr) ==
    IF ~Tracked(name) THEN << >>
    ELSE IF procs[running_processes[name]].st # "alive"
    THEN << "terminate", "wait(10)" >>
    ELSE IF osr = "raises" THEN << "terminate" >>
    ELSE IF osr = "timeout"
    THEN << "terminate", "wait(10)", "kill", "wait()" >>
    ELSE << "terminate", "wait(10)" >>

\* a stop_service that writes an ERROR entry when nothing is tracked
StopEffect_logs_miss(name, osr) ==
    LET out == StopOutcome(name, osr)
    IN  /\ procs' = IF out = "stopped successfully"
                    THEN [procs EXCEPT ![running_processes[name]].st = "reaped"]
                    ELSE procs
        /\ running_processes' =
              IF out = "stopped successfully"
              THEN Without(running_processes, name) ELSE running_processes
        /\ service_logs' =
              IF out = "stopped successfully" THEN Log(service_logs, name, "INFO")
              ELSE Log(service_logs, name, "ERROR")
        /\ osCalls' = StopCalls(name, osr)

\* stop_service: what it does to the manager
StopEffect(name, osr) ==
    LET out == StopOutcome(name, osr)
    IN  /\ procs' = IF out = "stopped successfully"
                    THEN [procs EXCEPT ![running_processes[name]].st = "reaped"]
                    ELSE procs
        /\ running_processes' =
              IF out = "stopped successfully"
              THEN Without(running_processes, name) ELSE running_processes
        /\ service_logs' =
              IF out = "stopped successfully" THEN Log(service_logs, name, "INFO")
              ELSE IF out = "Failed to stop service"
              THEN Log(service_logs, name, "ERROR")
              ELSE service_logs
        /\ osCalls' = StopCalls(name, osr)

\* what the HealthMonitor, the registry and the callers keep while the
\* manager works
ManagerFrame ==
    UNCHANGED << registryVars, dataVars, websocket_clients, loopVars, callVars,
                 lastReply, requestLoops, snapshot, aliased >>

\* await manager.start_service(name): no await inside, one step
start_service(name, ok) ==
    /\ StartEffect(name, ok)
    /\ lastResult' = Result("start", name,
                            StartOutcome(name, ok) = "started successfully",
                            StartOutcome(name, ok))
    /\ UNCHANGED << pausing, osCalls >>
    /\ ManagerFrame

\* await manager.stop_service(name): no await inside, one step
stop_service(name, osr) ==
    /\ StopEffect(name, osr)
    /\ lastResult' = Result("stop", name,
                            StopOutcome(name, osr) = "stopped successfully",
                            StopOutcome(name, osr))
    /\ UNCHANGED pausing
    /\ ManagerFrame

Pausing(name) == IF name \in DOMAIN pausing THEN pausing[name] ELSE 0

\* a restart_service that returns every failed stop, "not running" included
restart_service_strict(name, osr) ==
    /\ StopEffect(name, osr)
    /\ IF StopOutcome(name, osr) # "stopped successfully"
       THEN /\ lastResult' = Result("restart", name, FALSE, StopOutcome(name, osr))
            /\ UNCHANGED pausing
       ELSE /\ pausing' = With(pausing, name, Pausing(name) + 1)
            /\ UNCHANGED lastResult
    /\ ManagerFrame

\* restart_service up to asyncio.sleep(2) (lines 129-136): the stop, then
\* the failed stop is returned or the pause begins
restart_service(name, osr) ==
    /\ StopEffect(name, osr)
    /\ IF StopOutcome(name, osr) = "Failed to stop service"
       THEN /\ lastResult' = Result("restart", name, FALSE, StopOutcome(name, osr))
            /\ UNCHANGED pausing
       ELSE /\ pausing' = With(pausing, name, Pausing(name) + 1)
            /\ UNCHANGED lastResult
    /\ ManagerFrame

\* restart_service after the pause (lines 138-140): the start, whose result
\* is returned
restart_resume(name, ok) ==
    /\ Pausing(name) > 0
    /\ pausing' = With(pausing, name, Pausing(name) - 1)
    /\ StartEffect(name, ok)
    /\ lastResult' = Result("restart", name,
                            StartOutcome(name, ok) = "started successfully",
                            StartOutcome(name, ok))
    /\ UNCHANGED osCalls
    /\ ManagerFrame

\* get_service_status (lines 149-158); poll() notices an exit
get_service_status(name) ==
    /\ procs' = IF Tracked(name) THEN Poll(procs, running_processes[name]) ELSE procs
    /\ lastResult' =
          Result("status", name, TRUE,
                 IF Tracked(name) /\ procs[running_processes[name]].st = "alive"
                 THEN RUNNING ELSE STOPPED)
    /\ UNCHANGED << running_processes, service_logs, pausing, osCalls >>
    /\ ManagerFrame

Terminated == {n \in DOMAIN running_processes :
                  procs[running_processes[n]].st # "alive"}

\* lines 273-275: one INFO entry for each name removed
RECURSIVE LogAll(_, _)
LogAll(logs, names) ==
    IF names = {} THEN logs
    ELSE LET n == CHOOSE x \in names : TRUE
         IN  LogAll(Log(logs, n, "INFO"), names \ {n})

\* cleanup_stopped_processes (lines 266-275)
cleanup_stopped_processes ==
    /\ procs' = [pid \in DOMAIN procs |->
                    IF \E n \in DOMAIN running_processes : running_processes[n] = pid
                    THEN Poll(procs, pid)[pid] ELSE procs[pid]]
    /\ running_processes' =
          [n \in DOMAIN running_processes \ Terminated |-> running_processes[n]]
    /\ service_logs' = LogAll(service_logs, Terminated)
    /\ UNCHANGED << pausing, lastResult, osCalls >>
    /\ ManagerFrame

\* a child process ends by itself
ProcExit(pid) ==
    /\ pid \in DOMAIN procs
    /\ procs[pid].st = "alive"
    /\ procs' = [procs EXCEPT ![pid].st = "exited"]
    /\ UNCHANGED << running_processes, service_logs, pausing, lastResult,
                    osCalls >>
    /\ ManagerFrame

\* the names callers pass: registered ones and one the registry does not know
ManagerNames == {"api-gateway", "no-such-service"}
OsResults == {"ok", "timeout", "raises"}

ManagerInit == Fresh(CfgOf(<< "api-gateway" >>))

ManagerRoom ==
    /\ Len(procs) < MaxProcs
    /\ \A n \in DOMAIN service_logs : Len(service_logs[n]) < MaxLogs
    /\ \A n \in DOMAIN pausing : pausing[n] < MaxPauses

ManagerNext ==
    \/ \E n \in ManagerNames : \E ok \in BOOLEAN : ManagerRoom /\ start_service(n, ok)
    \/ \E n \in ManagerNames : \E osr \in OsResults : ManagerRoom /\ stop_service(n, osr)
    \/ \E n \in ManagerNames : \E osr \in OsResults : ManagerRoom /\ restart_service(n, osr)
    \/ \E n \in ManagerNames : \E ok \in BOOLEAN : restart_resume(n, ok)
    \/ \E n \in ManagerNames : get_service_status(n)
    \/ ManagerRoom /\ cleanup_stopped_processes
    \/ \E pid \in DOMAIN procs : ProcExit(pid)

ManagerSpec == ManagerInit /\ [][ManagerNext]_vars

LiveChildren(name) ==
    {pid \in DOMAIN procs : procs[pid].name = name /\ procs[pid].st = "alive"}

\* C11: at any time at most one live child process started by the manager
\* exists for a service name.
C11_OneLiveChild ==
    \A n \in ManagerNames : Cardinality(LiveChildren(n)) <= 1

\* a start_service arrived during the pause of a restart, whose own start
\* then was refused
C11_Witness ==
    /\ lastResult = Result("restart", "api-gateway", FALSE, "is already running")
    /\ Cardinality(LiveChildren("api-gateway")) = 1
    /\ Len(procs) >= 2


\* C12: a name is mapped to a process only while the process is believed
\* running: not after a successful stop_service, and not once a manager
\* operation has seen the exit of the tracked process (its exit code is set).
C12_MappedWhileRunning ==
    /\ \A n \in DOMAIN running_processes : procs[running_processes[n]].st # "reaped"
    /\ lastResult.op = "stop" /\ lastResult.success => ~Tracked(lastResult.name)

TrackedAlive(name) ==
    Tracked(name) /\ procs[running_processes[name]].st = "alive"

\* C13: start_service of a registered name whose tracked handle is alive
\* fails with "already running" and changes nothing; otherwise (the launch
\* not failing) it spawns one process, records its handle under the name,
\* appends one INFO log entry and succeeds; and get_service_status reports
\* RUNNING for a name while a process started for it lives.
C13_StartTransition ==
    /\ [][\A n \in services : \A ok \in BOOLEAN : start_service(n, ok) =>
            IF TrackedAlive(n)
            THEN /\ lastResult' = Result("start", n, FALSE, "is already running")
                 /\ UNCHANGED << running_processes, procs, service_logs, pausing >>
            ELSE ok =>
                 /\ Len(procs') = Len(procs) + 1
                 /\ procs'[Len(procs')] = Spawned(n)
                 /\ \A pid \in DOMAIN procs : procs'[pid].st = "alive" <=> procs[pid].st = "alive"
                 /\ running_processes' = With(running_processes, n, Len(procs'))
                 /\ Len(LogsOf(service_logs, n)) < LogCap =>
                       service_logs' = With(service_logs, n,
                                            Append(LogsOf(service_logs, n), "INFO"))
                 /\ lastResult' = Result("start", n, TRUE, "started successfully")]_vars
    /\ [][\A n \in ManagerNames : get_service_status(n) /\ LiveChildren(n) # {}
            => lastResult'.message = RUNNING]_vars

\* a second process was started for the name after the first one had exited
C13_Witness ==
    /\ lastResult = Result("start", "api-gateway", TRUE, "started successfully")
    /\ TrackedAlive("api-gateway")
    /\ running_processes["api-gateway"] = 2
    /\ procs[1].st # "alive"

\* C14: stop_service of a name with no tracked process fails with "not
\* running" and changes no manager state; a start_service of that registered
\* name issued next (the launch not failing) succeeds and logs an INFO entry.
C14_StopUntracked ==
    /\ [][\A n \in ManagerNames : \A osr \in OsResults :
            stop_service(n, osr) /\ ~Tracked(n) =>
               /\ lastResult' = Result("stop", n, FALSE, "is not running")
               /\ UNCHANGED << running_processes, procs, service_logs, pausing >>]_vars
    /\ [][\A n \in services :
            /\ lastResult = Result("stop", n, FALSE, "is not running")
            /\ ~Tracked(n)
            /\ start_service(n, TRUE)
            => /\ lastResult'.success
               /\ TrackedAlive(n)'
               /\ service_logs'[n][Len(service_logs'[n])] = "INFO"]_vars

\* the failed stop of a registered name that is not tracked
C14_Witness ==
    /\ lastResult = Result("stop", "api-gateway", FALSE, "is not running")
    /\ ~Tracked("api-gateway")
    /\ Len(procs) < MaxProcs

NeverStarted(name) == \A pid \in DOMAIN procs : procs[pid].name # name

\* C15: restart_service of a registered service that was never started: the
\* stop inside it fails with "not running", which changes nothing and does
\* not end the restart (it goes into its pause); after the pause the start
\* (the launch not failing) succeeds, the restart returns success and the
\* service is tracked and running.
C15_RestartNeverStarted ==
    /\ [][\A n \in services : \A osr \in OsResults :
            restart_service(n, osr) /\ NeverStarted(n) =>
               /\ StopOutcome(n, osr) = "is not running"
               /\ Pausing(n)' = Pausing(n) + 1
               /\ UNCHANGED << running_processes, procs, service_logs, lastResult >>]_vars
    /\ [][\A n \in services :
            restart_resume(n, TRUE) /\ NeverStarted(n) =>
               /\ lastResult' = Result("restart", n, TRUE, "started successfully")
               /\ TrackedAlive(n)'
               /\ lastResult'.message # "is not running"]_vars

\* the restart of the never started service has returned success
C15_Witness ==
    /\ lastResult = Result("restart", "api-gateway", TRUE, "started successfully")
    /\ Len(procs) = 1
    /\ TrackedAlive("api-gateway")
    /\ service_logs = With(<< >>, "api-gateway", << "INFO" >>)

\* C16: start_service, stop_service and restart_service of a name unknown
\* to the registry return a failure that reports the service as "not found"
\* and no other reason, and leave the process map and the logs unchanged.
C16_UnknownNotFound ==
    [][\A n \in ManagerNames \ services :
          /\ (\E ok \in BOOLEAN : start_service(n, ok) \/ restart_resume(n, ok))
              \/ (\E osr \in OsResults : stop_service(n, osr))
              => /\ lastResult' = Result(lastResult'.op, n, FALSE, "not found")
                 /\ UNCHANGED << running_processes, service_logs >>
          /\ (\E osr \in OsResults : restart_service(n, osr))
              => UNCHANGED << running_processes, service_logs >>]_vars

FailureMessages == {"Failed to start service", "Failed to stop service"}

\* C17: a start_service or stop_service in which an OS call raises returns
\* success = false, appends exactly one ERROR log entry for the service, and
\* leaves no handle for the service in the process map.
C17_FailedOsCall ==
    [][\A n \in ManagerNames :
          /\ (start_service(n, FALSE) \/ stop_service(n, "raises"))
          /\ lastResult'.message \in FailureMessages
          => /\ ~lastResult'.success
             /\ service_logs' = With(service_logs, n,
                                     Append(LogsOf(service_logs, n), "ERROR"))
             /\ ~Tracked(n)']_vars


\* ------------------------------------------------------ HTTP query surface

\* the routers of src/api are included before main.py declares its own
\* routes, so a request for /api/services/... or /api/health/... is served
\* by a router handler.  Each handler calls get_service_manager() or
\* get_health_monitor(), which build a new ServiceRegistry (read from the
\* configuration) and a new ServiceManager / HealthMonitor over it.

Reply(req, name, r) == [request |-> req, name |-> name, reply |-> r]

\* ServiceRegistry() as a request builds it
RequestRegistry == LoadConfig({}, config)

ApiFrame ==
    UNCHANGED << registryVars, dataVars, websocket_clients, loopVars, callVars,
                 running_processes, service_logs, pausing, lastResult,
                 osCalls, snapshot, aliased >>

\* POST /api/services/{name}/start: start_service on a new manager, whose
\* process map is empty; the handle and the log entry go with that manager
api_start_service(name, ok) ==
    /\ procs' = IF name \in RequestRegistry /\ ok
                THEN Append(procs, Spawned(name)) ELSE procs
    /\ lastReply' = Reply("start", name,
                          IF name \notin RequestRegistry THEN "not found"
                          ELSE IF ok THEN "started successfully"
                          ELSE "Failed to start service")
    /\ UNCHANGED requestLoops
    /\ ApiFrame

\* POST /api/services/{name}/stop: stop_service on a new manager
api_stop_service(name) ==
    /\ lastReply' = Reply("stop", name, "is not running")
    /\ UNCHANGED << procs, requestLoops >>
    /\ ApiFrame

\* GET /api/services/{name}/status: get_service_status on a new manager
api_get_service_status(name) ==
    /\ lastReply' = Reply("status", name, STOPPED)
    /\ UNCHANGED << procs, requestLoops >>
    /\ ApiFrame

\* GET /api/health/services/{name}: get_service_health on a new monitor,
\* whose health_data is empty: 404
api_get_service_health(name) ==
    /\ lastReply' = Reply("health", name, "Health data not found")
    /\ UNCHANGED << procs, requestLoops >>
    /\ ApiFrame

\* POST /api/health/monitoring/start: start_monitoring on a new monitor; the
\* loop it launches polls into the collections of that monitor
api_start_monitoring ==
    /\ requestLoops' = requestLoops + 1
    /\ lastReply' = Reply("monitoring/start", "", "Health monitoring started")
    /\ UNCHANGED procs
    /\ ApiFrame

\* POST /api/health/monitoring/stop: stop_monitoring on a new monitor, which
\* has no task
api_stop_monitoring ==
    /\ lastReply' = Reply("monitoring/stop", "", "Health monitoring stopped")
    /\ UNCHANGED << procs, requestLoops >>
    /\ ApiFrame

ApiResponses == {Http(200, "object", 1), Http(500, "object", 1)}

ApiInit == Fresh(CfgOf(<< "api-gateway" >>))

\* the polling loop that lifespan starts on the monitor of main.py
ApiLoopStep(t) ==
    \/ CycleBegin(t)
    \/ \E n \in DOMAIN task[t].kids : ChildStart(t, n)
    \/ \E n \in DOMAIN task[t].kids : \E resp \in ApiResponses :
          Room(n, resp) /\ ChildFinish(t, n, resp)
    \/ GatherDone(t)

ApiNext ==
    \/ start_monitoring
    \/ \E t \in TaskIds : ApiLoopStep(t)
    \/ \E n \in ManagerNames : \E ok \in BOOLEAN :
          Len(procs) < MaxProcs /\ api_start_service(n, ok)
    \/ \E n \in ManagerNames : api_stop_service(n)
    \/ \E n \in ManagerNames : api_get_service_status(n)
    \/ \E n \in ManagerNames : api_get_service_health(n)
    \/ requestLoops < MaxRequestLoops /\ api_start_monitoring
    \/ api_stop_monitoring
    \/ \E pid \in DOMAIN procs : ProcExit(pid)

ApiSpec == ApiInit /\ [][ApiNext]_vars

\* C18: requests act on the instances built at process start, so what one
\* request wrote a later one sees: a service started by a start request and
\* still alive is reported RUNNING by a status request and is stopped by a
\* stop request, a stop-monitoring request ends the loops that
\* start-monitoring requests launched, and the health request for a service
\* returns the record the polling loop wrote.
C18_SharedInstances ==
    [][\A n \in ManagerNames :
          /\ api_get_service_status(n) /\ LiveChildren(n) # {}
                => lastReply'.reply = RUNNING
          /\ api_stop_service(n) /\ LiveChildren(n) # {}
                => LiveChildren(n)' = {}
          /\ api_get_service_health(n) /\ n \in DOMAIN health_data
                => lastReply'.reply # "Health data not found"
          /\ api_stop_monitoring => requestLoops' = 0]_vars


\* ------------------------------------------- callers of get_all_health

CallerFrame ==
    UNCHANGED << registryVars, metrics_history, health_history,
                 websocket_clients, loopVars, callVars, managerVars,
                 lastReply, requestLoops >>

\* a caller calls get_all_health() and keeps the value: a new dict whose
\* values are the ServiceHealth objects health_data holds (dict.copy())
caller_get_all_health ==
    /\ snapshot' = get_all_health
    /\ aliased' = DOMAIN health_data
    /\ UNCHANGED health_data
    /\ CallerFrame

\* del value[name]
caller_del_key(name) ==
    /\ name \in DOMAIN snapshot
    /\ snapshot' = Without(snapshot, name)
    /\ aliased' = aliased \ {name}
    /\ UNCHANGED health_data
    /\ CallerFrame

\* value[name] = ServiceHealth(status=STOPPED, ...), a record of the caller
caller_add_key(name) ==
    /\ name \notin DOMAIN snapshot
    /\ snapshot' = With(snapshot, name,
                        [status |-> STOPPED, response_time |-> None,
                         error_message |-> None, uptime |-> None])
    /\ UNCHANGED << aliased, health_data >>
    /\ CallerFrame

\* value[name].status = STOPPED: ServiceHealth is a mutable pydantic model,
\* so the object is changed in place, for everyone who holds it
caller_set_field(name) ==
    /\ name \in DOMAIN snapshot
    /\ snapshot[name].status # STOPPED
    /\ snapshot' = [snapshot EXCEPT ![name].status = STOPPED]
    /\ health_data' = IF name \in aliased
                      THEN [health_data EXCEPT ![name].status = STOPPED]
                      ELSE health_data
    /\ UNCHANGED aliased
    /\ CallerFrame

CallerStep ==
    \E n \in DefaultNames :
        caller_del_key(n) \/ caller_add_key(n) \/ caller_set_field(n)

CallerResponses == {Http(200, "object", 1), Http(500, "object", 1)}

CallerInit == Fresh(CfgOf(<< "api-gateway", "data-service" >>))

CallerNext ==
    \/ \E n \in services : \E resp \in CallerResponses :
          Len(health_history) < MaxChecks /\ CheckOnce(n, resp)
    \/ caller_get_all_health
    \/ \E n \in services : caller_del_key(n)
    \/ \E n \in services : caller_add_key(n)
    \/ \E n \in services : caller_set_field(n)

CallerSpec == CallerInit /\ [][CallerNext]_vars

\* C19: nothing a caller does to the value get_all_health() returned (adding
\* or deleting keys, changing a field of a record reached through it)
\* changes health_data, which is what get_service_health and get_all_health
\* return afterwards and what the next broadcast sends.
C19_Snapshot ==
    [][CallerStep => UNCHANGED health_data]_vars

\* ------------------------------------------------- overview of the system

\* get_service_health (lines 207-209): self.health_data.get(name)
get_service_health(name) ==
    IF name \in DOMAIN health_data THEN Some(health_data[name]) ELSE None

\* ServiceInfo.category of the services of the catalogue
CategoryOf(name) == IF name = "web-portal" THEN "ui" ELSE "core"

CountStatus(st) ==
    Cardinality({n \in DOMAIN health_data : health_data[n].status = st})

\* an overview whose totals are counted over health_data
get_system_overview_of_health ==
    [total_services |-> Cardinality(DOMAIN health_data),
     running_services |-> CountStatus(RUNNING),
     stopped_services |-> CountStatus(STOPPED),
     error_services |-> CountStatus(ERROR),
     services_by_category |->
        [c \in {CategoryOf(n) : n \in DOMAIN health_data} |->
            Cardinality({n \in DOMAIN health_data : CategoryOf(n) = c})]]

\* get_system_overview (lines 241-270)
get_system_overview ==
    [total_services |-> Cardinality(services),
     running_services |-> CountStatus(RUNNING),
     stopped_services |-> CountStatus(STOPPED),
     error_services |-> CountStatus(ERROR),
     services_by_category |->
        [c \in {CategoryOf(n) : n \in services} |->
            Cardinality({n \in services : CategoryOf(n) = c})]]

OverviewResponses == {Http(200, "object", 1), Http(500, "object", 1), TimedOut}

OverviewInit == Fresh(CfgOf(<< "api-gateway", "web-portal" >>))

OverviewNext ==
    \E n \in services : \E resp \in OverviewResponses :
        /\ Len(health_history) < MaxChecks
        /\ CheckOnce(n, resp)

OverviewSpec == OverviewInit /\ [][OverviewNext]_vars

\* a check of the service has recorded a result / has recorded RUNNING (no
\* time passes here, so the history holds every check made)
Polled(name) ==
    \E i \in 1..Len(health_history) : health_history[i].service_name = name
PolledOk(name) ==
    \E i \in 1..Len(health_history) :
        /\ health_history[i].service_name = name
        /\ health_history[i].status = RUNNING

InOverview(name) ==
    /\ get_system_overview.total_services = Cardinality(services)
    /\ CategoryOf(name) \in DOMAIN get_system_overview.services_by_category
    /\ get_system_overview.services_by_category[CategoryOf(name)] =
          Cardinality({n \in services : CategoryOf(n) = CategoryOf(name)})

\* C20: for every registered service of which no check has ever returned
\* HTTP 200, get_service_health returns absent, while get_system_overview
\* counts it in total_services and in its category.
C20_AbsentUntilSuccess ==
    \A n \in services : ~PolledOk(n) =>
        get_service_health(n) = None /\ InOverview(n)

\* C20 as the code has it: get_service_health returns absent for a registered
\* service of which no check has recorded a result; once a check has, it
\* returns the record of the last one, an ERROR record if that check failed;
\* in both cases get_system_overview counts the service in total_services
\* and in its category.
C20_AbsentUntilPolled ==
    \A n \in services :
        /\ ~Polled(n) => get_service_health(n) = None
        /\ Polled(n) =>
              /\ get_service_health(n) # None
              /\ ~PolledOk(n) => get_service_health(n)[1].status = ERROR
        /\ InOverview(n)

\* one service was polled and failed, the other was never polled: both are
\* counted
C20_Witness ==
    /\ Polled("api-gateway") /\ ~PolledOk("api-gateway")
    /\ ~Polled("web-portal")
    /\ get_system_overview.total_services = 2
    /\ get_system_overview.error_services = 1

\* ------------------------------------------------------------------ alerts

\* the loop body of get_health_alerts (api/health.py lines 198-220): the
\* alerts derived from the records of the mapping all_health
get_health_alerts(all_health) ==
    LET alert(n, sev, m) == [service_name |-> n, severity |-> sev, message |-> m]
        of(n) ==
            LET h == all_health[n]
            IN  IF h.status = ERROR
                THEN {alert(n, "error",
                            IF h.error_message # None /\ h.error_message[1] # ""
                            THEN h.error_message[1]
                            ELSE "Service is in error state")}
                ELSE IF h.status = STOPPED
                THEN {alert(n, "warning", "Service is stopped")}
                ELSE IF h.response_time # None /\ h.response_time[1] > 5
                THEN {alert(n, "warning",
                            "High response time: " \o ToString(h.response_time[1])
                               \o ".00s")}
                ELSE {}
    IN  UNION {of(n) : n \in DOMAIN all_health}

\* GET /api/health/alerts: get_health_monitor() builds a new HealthMonitor,
\* whose health_data is empty, and the alerts are derived from its
\* get_all_health()
api_get_health_alerts ==
    /\ lastReply' = Reply("alerts", "", get_health_alerts(<< >>))
    /\ UNCHANGED << procs, requestLoops >>
    /\ ApiFrame

AlertResponses ==
    {Http(200, "object", 1), Http(200, "object", 6), Http(500, "object", 1),
     Failed("")}

AlertInit == Fresh(CfgOf(<< "api-gateway", "web-portal" >>))

AlertNext ==
    \/ \E n \in services : \E resp \in AlertResponses :
          Len(health_history) < MaxChecks /\ CheckOnce(n, resp)
    \/ api_get_health_alerts

AlertSpec == AlertInit /\ [][AlertNext]_vars

AlertsFor(n, as) == {a \in as : a.service_name = n}

\* C21: the alerts request returns at most one alert for each current
\* record: an "error" alert if the status is ERROR (its message the stored
\* error, or the generic one), a "warning" alert if the status is STOPPED,
\* otherwise a "warning" alert if the latency exceeds 5 seconds, otherwise
\* none; with one service in ERROR and one RUNNING with latency 6 it
\* returns exactly two alerts.
C21_Alerts ==
    [][api_get_health_alerts =>
          \A n \in DOMAIN health_data :
              LET h == health_data[n]
                  mine == AlertsFor(n, lastReply'.reply)
              IN  /\ Cardinality(mine) <= 1
                  /\ h.status = ERROR =>
                        \E a \in mine : a.severity = "error"
                  /\ h.status = STOPPED =>
                        \E a \in mine : a.severity = "warning"
                  /\ h.status = RUNNING /\ h.response_time # None
                        /\ h.response_time[1] > 5 =>
                        \E a \in mine : a.severity = "warning"
                  /\ h.status = RUNNING
                        /\ (h.response_time = None \/ h.response_time[1] <= 5) =>
                        mine = {}]_vars

\* ------------------------------------------------- loading the catalogue

\* the ServiceInfo fields that the endpoint queries read: those of the
\* built-in entries (_load_default_services) and of a configured entry
ServiceInfoOf(name) ==
    [url |-> IF name = "api-gateway" THEN "http://localhost:8000"
             ELSE IF name = "data-service" THEN "http://localhost:8001"
             ELSE IF name = "web-portal" THEN "http://localhost:8006"
             ELSE "http://localhost:8010",
     health_endpoint |-> IF name \in DefaultNames THEN "/health" ELSE "/healthz",
     docs_endpoint |-> IF name \in DefaultNames THEN "/docs" ELSE "/redoc"]

\* get_all_services: list(self.services.values())
get_all_services == services

\* get_health_endpoint: f"{service.url}{service.health_endpoint}", or None
get_health_endpoint(name) ==
    IF name \in services
    THEN Some(ServiceInfoOf(name).url \o ServiceInfoOf(name).health_endpoint)
    ELSE None

\* get_docs_endpoint: f"{service.url}{service.docs_endpoint}", or None
get_docs_endpoint(name) ==
    IF name \in services
    THEN Some(ServiceInfoOf(name).url \o ServiceInfoOf(name).docs_endpoint)
    ELSE None

\* the configuration sources explored: no readable file, a list of up to two
\* entries, and such a list with one malformed entry
RegistryNames == {"api-gateway", "data-service", "new-service"}
RegistryEntries ==
    {<< >>} \cup {<< a >> : a \in RegistryNames}
       \cup {p \in RegistryNames \X RegistryNames : p[1] # p[2]}
RegistryConfigs ==
    {CfgMissing} \cup {CfgOf(es) : es \in RegistryEntries}
       \cup UNION {{CfgBad(es, k) : k \in 1..Len(es)} : es \in RegistryEntries}

\* ServiceRegistry() over any of the sources
RegistryInit == \E c \in RegistryConfigs : Fresh(c)

RegistryNext ==
    \/ \E c \in RegistryConfigs : ConfigChange(c)
    \/ reload_config

RegistrySpec == RegistryInit /\ [][RegistryNext]_vars

\* C22: after a load (at construction or at reload) the registry is never
\* empty, whatever the configuration source is: missing, unparseable,
\* malformed in one entry, or well-formed with an empty list of services.
C22_NeverEmpty == services # {}

\* what a load of the source that succeeds, or falls back as a whole, gives:
\* the configured services, or the built-in ones
Configured(cfg) ==
    IF cfg.readable /\ cfg.badAt = 0
    THEN {cfg.entries[i] : i \in 1..Len(cfg.entries)}
    ELSE DefaultNames

\* C23: reload replaces the whole catalogue: after it the registry holds
\* exactly the configured services, or exactly the built-in set if loading
\* fails, with no entry of the previous catalogue and none of a partially
\* parsed configuration; every service of a configuration that loads is
\* listed and its health and docs URLs are its base address followed by its
\* configured paths.
C23_ReloadReplaces ==
    [][reload_config =>
          /\ get_all_services' = Configured(config)
          /\ config.readable /\ config.badAt = 0 =>
                \A i \in 1..Len(config.entries) :
                    LET n == config.entries[i]
                    IN  /\ get_health_endpoint(n)' =
                              Some(ServiceInfoOf(n).url \o ServiceInfoOf(n).health_endpoint)
                        /\ get_docs_endpoint(n)' =
                              Some(ServiceInfoOf(n).url \o ServiceInfoOf(n).docs_endpoint)]_vars

\* ------------------------------------------- what a check of a cycle writes

\* the check of service n that the cycle of task t awaited ends in this step
CheckEnds(t, n) ==
    /\ n \in DOMAIN task[t].kids /\ task[t].kids[n] = "wait"
    /\ n \in DOMAIN task'[t].kids /\ task'[t].kids[n] = "done"

\* C24: every health check of a registered service made in a poll cycle,
\* whatever its outcome and whatever the body of the response, overwrites
\* the record of the service and appends exactly one history entry; it
\* appends exactly one metrics sample if and only if a latency was captured.
C24_EveryCheckRecords ==
    [][\A t \in TaskIds : \A n \in services :
          CheckEnds(t, n) =>
              /\ n \in DOMAIN health_data'
              /\ Len(health_history') = Len(health_history) + 1
              /\ health_history'[Len(health_history')].service_name = n
              /\ health_history'[Len(health_history')].status = health_data'[n].status
              /\ IF health_data'[n].response_time # None
                 THEN /\ Len(metrics_history') = Len(metrics_history) + 1
                      /\ metrics_history'[Len(metrics_history')].service_name = n
                 ELSE metrics_history' = metrics_history]_vars

\* ------------------------------------------------- the escalation of a stop

\* what get_service_status(name) returns in the state as it is
StatusNow(name) ==
    IF Tracked(name) /\ procs[running_processes[name]].st = "alive"
    THEN RUNNING ELSE STOPPED

\* C25: stop_service on a tracked service first requests termination, then
\* waits up to 10 seconds, and kills only if the process is still alive when
\* that wait expires, then waits without a limit.  Whenever it returns
\* success the process has exited, the handle is no longer tracked, exactly
\* one INFO entry was appended to the log of the service, and
\* get_service_status is STOPPED.
C25_StopEscalates ==
    [][\A n \in ManagerNames : \A osr \in OsResults :
          stop_service(n, osr) /\ Tracked(n) =>
              LET pid == running_processes[n]
                  stillAlive == procs[pid].st = "alive" /\ osr = "timeout"
              IN  /\ osCalls'[1] = "terminate"
                  /\ IF stillAlive
                     THEN osCalls' = << "terminate", "wait(10)", "kill", "wait()" >>
                     ELSE \A i \in 1..Len(osCalls') : osCalls'[i] # "kill"
                  /\ lastResult'.success =>
                        /\ osCalls'[2] = "wait(10)"
                        /\ procs'[pid].st = "reaped"
                        /\ ~Tracked(n)'
                        /\ service_logs'[n] = Append(LogsOf(service_logs, n), "INFO")
                        /\ \A m \in DOMAIN service_logs \ {n} :
                              service_logs'[m] = service_logs[m]
                        /\ StatusNow(n)' = STOPPED]_vars

\* a stop had to kill the process, and returned success
C25_Witness ==
    /\ lastResult = Result("stop", "api-gateway", TRUE, "stopped successfully")
    /\ osCalls = << "terminate", "wait(10)", "kill", "wait()" >>
    /\ ~Tracked("api-gateway")
    /\ LiveChildren("api-gateway") = {}

\* --------------------------------------- the manager and the polling loop

\* the manager and the polling loop of main.py on the one event loop: every
\* step is the run of one task from one suspension point to the next.
\* stop_service has no await: its terminate, its waits and its return are
\* one step
CoopInit == Fresh(CfgOf(<< "api-gateway" >>))

CoopNext ==
    \/ start_monitoring
    \/ \E t \in TaskIds : ApiLoopStep(t)
    \/ \E ok \in BOOLEAN : ManagerRoom /\ start_service("api-gateway", ok)
    \/ \E osr \in OsResults : ManagerRoom /\ stop_service("api-gateway", osr)
    \/ \E pid \in DOMAIN procs : ProcExit(pid)

CoopSpec == CoopInit /\ [][CoopNext]_vars

\* C26: the blocking process calls of the manager are suspension points:
\* while a stop_service waits for a process to exit (up to 10 seconds, or
\* without a limit after the kill) the polling loop and other requests can
\* take steps.  So no step of the event loop that runs stop_service on a
\* live process, while a polling loop is alive, contains the wait itself:
\* the wait lies between two steps.
C26_StopYields ==
    [][\A osr \in OsResults :
          /\ stop_service("api-gateway", osr)
          /\ TrackedAlive("api-gateway")
          /\ \E t \in TaskIds : Alive(t)
          => \A i \in 1..Len(osCalls') : osCalls'[i] \notin {"wait(10)", "wait()"}]_vars

\* ----------------------------------------------------------------- cleanup

\* two registered services whose processes are started, end by themselves
\* and are polled, and the cleanup
CleanupInit == Fresh(CfgOf(<< "api-gateway", "data-service" >>))

CleanupNext ==
    \/ \E n \in services : \E ok \in BOOLEAN : ManagerRoom /\ start_service(n, ok)
    \/ \E n \in services : get_service_status(n)
    \/ ManagerRoom /\ cleanup_stopped_processes
    \/ \E pid \in DOMAIN procs : ProcExit(pid)

CleanupSpec == CleanupInit /\ [][CleanupNext]_vars

\* C27: cleanup_stopped_processes removes from the process map exactly the
\* handles whose process has exited on its own and appends exactly one INFO
\* entry to the log of each removed name; every handle whose process is
\* alive, and the log of every other service, stay as they are.
C27_CleanupFrame ==
    [][cleanup_stopped_processes =>
          LET gone == {n \in DOMAIN running_processes :
                          procs[running_processes[n]].st # "alive"}
          IN  /\ DOMAIN running_processes' = DOMAIN running_processes \ gone
              /\ \A n \in DOMAIN running_processes' :
                    /\ running_processes'[n] = running_processes[n]
                    /\ procs'[running_processes[n]].st = "alive"
              /\ \A n \in gone :
                    service_logs'[n] = Append(LogsOf(service_logs, n), "INFO")
              /\ DOMAIN service_logs' = DOMAIN service_logs \cup gone
              /\ \A n \in DOMAIN service_logs \ gone :
                    service_logs'[n] = service_logs[n]]_vars

\* the process of api-gateway ended by itself and the cleanup removed its
\* handle and logged it, while the live process of data-service stays
\* tracked with its log untouched
C27_Witness ==
    /\ ~Tracked("api-gateway")
    /\ "api-gateway" \in DOMAIN service_logs
    /\ service_logs["api-gateway"] = << "INFO", "INFO" >>
    /\ TrackedAlive("data-service")
    /\ service_logs["data-service"] = << "INFO" >>

\* C28: every child process that the manager spawned and that is still alive
\* is the handle tracked under its service name: no operation of the manager
\* (start_service writing an entry over another, stop_service,
\* restart_service, cleanup_stopped_processes, in any order) drops or
\* replaces the handle of a live process.
C28_NoOrphan ==
    \A pid \in DOMAIN procs :
        procs[pid].st = "alive" =>
            /\ Tracked(procs[pid].name)
            /\ running_processes[procs[pid].name] = pid

\* start_service has written a new handle over that of a process that had
\* ended by itself: the live process is the tracked one
C28_Witness ==
    /\ Len(procs) = 2
    /\ procs[1].st = "reaped"
    /\ procs[2].st = "alive"
    /\ Tracked("api-gateway") /\ running_processes["api-gateway"] = 2
    /\ service_logs["api-gateway"] = << "INFO", "INFO" >>

\* --------------------------------------------- the statuses the monitor writes

\* C29: every record and every history entry that the monitor writes has
\* status RUNNING or ERROR, never STOPPED, STARTING, STOPPING or UNKNOWN; so
\* get_system_overview reports stopped_services = 0 and the alerts derived
\* from the records of the monitor never hold the "Service is stopped"
\* warning.
C29_RunningOrError ==
    /\ \A n \in DOMAIN health_data : health_data[n].status \in {RUNNING, ERROR}
    /\ \A i \in 1..Len(health_history) :
          health_history[i].status \in {RUNNING, ERROR}
    /\ get_system_overview.stopped_services = 0
    /\ \A a \in get_health_alerts(get_all_health) :
          a.message # "Service is stopped"

\* a check that succeeded and then one that timed out were recorded
C29_Witness ==
    /\ Len(health_history) >= 2
    /\ health_history[1].status = RUNNING
    /\ "api-gateway" \in DOMAIN health_data
    /\ health_data["api-gateway"].status = ERROR
    /\ health_data["api-gateway"].error_message = Some("Request timeout")
    /\ get_system_overview.error_services = 1

\* ------------------------------------------------- queries of the history

HistoryResponses == {Http(200, "object", 1), Http(500, "object", 1)}
HistoryTicks == {12, RetentionHours + 1}
\* the values of the argument "hours" of get_health_history
QueryHours == {1, RetentionHours, MaxAge}

HistoryInit == Fresh(CfgOf(<< "api-gateway" >>))

HistoryStep(t) ==
    \/ CycleBegin(t)
    \/ \E n \in DOMAIN task[t].kids : ChildStart(t, n)
    \/ \E n \in DOMAIN task[t].kids : \E resp \in HistoryResponses :
          PollRoom(n, resp) /\ ChildFinish(t, n, resp)
    \/ GatherDone(t)
    \/ CancelDeliver(t)

\* the polling loop is started and stopped, direct checks are made, and
\* hours pass between the cycles
HistoryNext ==
    \/ start_monitoring
    \/ stop_monitoring
    \/ \E t \in TaskIds : stop_return(t)
    \/ \E t \in TaskIds : HistoryStep(t)
    \/ \E n \in services : \E resp \in HistoryResponses :
          PollRoom(n, resp) /\ CheckOnce(n, resp)
    \/ \E d \in HistoryTicks : BetweenCycles /\ Tick(d)

HistorySpec == HistoryInit /\ [][HistoryNext]_vars

\* C30: get_health_history(name, hours) never returns an entry older than
\* the retention window of 24 hours, for every value of hours (values above
\* 24 included) and in every state, also when monitoring was stopped or no
\* check has run for more than 24 hours since the entry was recorded.
C30_NeverOlderThanRetention ==
    \A name \in {"", "api-gateway"} : \A hours \in QueryHours :
        \A i \in 1..Len(get_health_history(name, hours)) :
            get_health_history(name, hours)[i].age <= RetentionHours

=============================================================================
